---- MODULE Spec2Model ----
(***************************************************************************)
(* The NexStar mount driver of src/src/mount.rs (CelestronMount and its    *)
(* Mount, Gps and Rtc operations) as a state machine: one driver instance, *)
(* its 32-byte receive buffer, the port mutex, the serial channel and the  *)
(* mount at the other end of the line.                                     *)
(***************************************************************************)
EXTENDS Integers, Sequences, FiniteSets, TLC

VARIABLES
    pc,         \* position of the driver inside the current call
    lock,       \* TRUE while the port mutex guard is alive
    op,         \* the facade operation being executed ("none" when idle)
    arg,        \* its arguments, a sequence of integers
    step,       \* index of the round trip the operation is in (1..3)
    saved,      \* bytes an operation keeps in locals across round trips
    recv,       \* CelestronMount::recv, the 32-byte receive buffer
    rlen,       \* count returned by port.read in the current round trip (-1: none yet)
    result,     \* what the call returned: [kind, err, val]
    gps,        \* TRUE while a CelestronGps handle borrows the mount
    rx,         \* bytes delivered by the mount and not yet read
    pending,    \* expected payload lengths of the commands the mount still has to answer
    mountOut,   \* rest of a reply the mount delivers in two parts
    calls,      \* number of facade calls made so far
    wire,       \* frames written to the channel by the current call, in order
    reads,      \* number of port.read calls made by the current call
    profile,    \* the slice of behaviours explored: "line", "replies", "values"
                \* or "session"
    unread,     \* TRUE when a frame was written and no read has followed it yet
    split,      \* TRUE when the mount delivered some reply in two parts
    faults,     \* number of replies the mount sent that the protocol does not define
    mount,      \* the mount itself: where it points, where it goes, its clock
    hist        \* what the caller learnt from the calls that returned

vars == <<pc, lock, op, arg, step, saved, recv, rlen, result, gps, rx, pending,
          mountOut, calls, wire, reads, profile, unread, split, faults, mount, hist>>

----------------------------------------------------------------------------
(* Bounds of the model *)

\* facade calls made in one behaviour
MaxCalls == 2

\* replies off the protocol the mount sends in one behaviour
MaxFaults == 1

\* facade calls made in one behaviour against the mount that moves
SessionCalls == 3

----------------------------------------------------------------------------
(* Program constants *)

RecvLen == 32
Hash == 35
Comma == 44
AzRaMotor == 16
ElDecMotor == 17
GpsUnit == 176
RtcUnit == 178

\* ASCII codes of the hand-controller opcodes
OpcodeE == 101
OpcodeZ == 122
OpcodeR == 114
OpcodeS == 115
OpcodeT == 116
OpcodeSetT == 84
OpcodeH == 104
OpcodeV == 86
OpcodeM == 109
OpcodeJ == 74
OpcodeL == 76
OpcodeQ == 81
PrefixP == 80

----------------------------------------------------------------------------
(* Bytes and sequences *)

Min(a, b) == IF a < b THEN a ELSE b

Zeros(n) == [i \in 1..n |-> 0]

Fill(n, b) == [i \in 1..n |-> b]

Take(s, n) == SubSeq(s, 1, Min(n, Len(s)))

Drop(s, n) == SubSeq(s, Min(n, Len(s)) + 1, Len(s))

\* port.read(&mut self.recv): the n bytes read overwrite recv[0..n), the rest stays
Overlay(buf, bytes) ==
    [i \in 1..Len(buf) |-> IF i <= Len(bytes) THEN bytes[i] ELSE buf[i]]

NoDuplicates(s) == \A i, j \in 1..Len(s) : i # j => s[i] # s[j]

----------------------------------------------------------------------------
(* Angle codec: src/src/mount/coordinates.rs *)

IsHexDigit(b) == b \in (48..57) \cup (65..70) \cup (97..102)

HexDigitVal(b) ==
    IF b \in 48..57 THEN b - 48
    ELSE IF b \in 65..70 THEN b - 55
    ELSE b - 87

\* i64::from_str_radix(s, 16) accepts an optional sign and at least one digit
HexBody(f) == IF Len(f) > 0 /\ f[1] \in {43, 45} THEN Tail(f) ELSE f

HexFieldOk(f) ==
    /\ \A i \in 1..Len(f) : f[i] < 128
    /\ Len(HexBody(f)) > 0
    /\ \A i \in 1..Len(HexBody(f)) : IsHexDigit(HexBody(f)[i])

\* from_msg_to_i64 succeeds on a field, str::from_utf8(..).unwrap() and
\* i64::from_str_radix(.., 16).unwrap() both returning a value
from_msg_ok(f) == HexFieldOk(f)

StripZeros(d) ==
    LET nz == {i \in 1..Len(d) : d[i] # 0}
    IN  IF nz = {} THEN <<0>>
        ELSE SubSeq(d, CHOOSE i \in nz : \A j \in nz : i <= j, Len(d))

\* from_msg_to_i64: the sign and the hexadecimal digits of a field that parses
from_msg_to_i64(f) ==
    [neg |-> f[1] = 45,
     digits |-> StripZeros([i \in 1..Len(HexBody(f)) |-> HexDigitVal(HexBody(f)[i])])]

RECURSIVE NatDigits(_)
NatDigits(n) == IF n < 16 THEN <<n>> ELSE Append(NatDigits(n \div 16), n % 16)

\* the eight hexadecimal digits of floor(r / 360 * 2^32), for 0 <= r < 360
RECURSIVE FracDigits(_, _)
FracDigits(r, k) ==
    IF k = 0 THEN <<>>
    ELSE <<(r * 16) \div 360>> \o FracDigits((r * 16) % 360, k - 1)

Abs(x) == IF x < 0 THEN 0 - x ELSE x

\* ((deg / 360.0) * REV as f64) as i64, the cast truncating toward zero: the sign
\* and the hexadecimal digits of the magnitude, most significant first
from_deg_to_i64(deg) ==
    [neg |-> deg < 0,
     digits |-> StripZeros(NatDigits(Abs(deg) \div 360) \o FracDigits(Abs(deg) % 360, 8))]

\* the digits of m * k and of m + c, for digits m and small naturals k, c
RECURSIVE MulDigits(_, _, _)
MulDigits(m, k, carry) ==
    IF Len(m) = 0 THEN (IF carry = 0 THEN <<>> ELSE NatDigits(carry))
    ELSE LET x == m[Len(m)] * k + carry
         IN  Append(MulDigits(SubSeq(m, 1, Len(m) - 1), k, x \div 16), x % 16)

RECURSIVE AddSmall(_, _)
AddSmall(m, c) ==
    IF c = 0 THEN m
    ELSE IF Len(m) = 0 THEN NatDigits(c)
    ELSE LET x == m[Len(m)] + c
         IN  Append(AddSmall(SubSeq(m, 1, Len(m) - 1), x \div 16), x % 16)

\* the digits of floor(m / k), by long division
RECURSIVE DivDigits(_, _, _)
DivDigits(m, k, r) ==
    IF Len(m) = 0 THEN <<>>
    ELSE LET x == r * 16 + m[1]
         IN  <<x \div k>> \o DivDigits(Tail(m), k, x % k)

\* an f64 angle in degrees is kept as its sign and the hexadecimal digits of
\* its magnitude counted in units of 1 / REV degree; the values
\* met here (whole degrees, and pos * 360 / REV with |pos| < 2^32) and their
\* quotients by 360 are exact in an f64
WholeDegrees(deg) ==
    [neg |-> deg < 0, digits |-> StripZeros(NatDigits(Abs(deg)) \o Zeros(8))]

\* from_i64_to_deg scaled by half a turn
from_i64_to_deg_half(pos) ==
    [neg |-> pos.neg, digits |-> StripZeros(MulDigits(pos.digits, 180, 0))]

\* from_i64_to_deg: (pos as f64 / REV as f64) * 360.0
from_i64_to_deg(pos) ==
    [neg |-> pos.neg, digits |-> StripZeros(MulDigits(pos.digits, 360, 0))]

\* from_deg_to_i64 of an angle that is not a whole number of degrees
from_deg_to_i64_frac(deg) ==
    [neg |-> deg.neg, digits |-> StripZeros(DivDigits(deg.digits, 360, 0))]

HexChar(d) == IF d < 10 THEN 48 + d ELSE 55 + d

\* 2^64 - m on sixteen hexadecimal digits: complement every digit, then add one
RECURSIVE AddOne(_)
AddOne(d) ==
    IF Len(d) = 0 THEN <<>>
    ELSE IF d[Len(d)] < 15 THEN [d EXCEPT ![Len(d)] = @ + 1]
    ELSE Append(AddOne(SubSeq(d, 1, Len(d) - 1)), 0)

TwosComplement64(m) ==
    LET padded == Zeros(16 - Len(m)) \o m
    IN  AddOne([i \in 1..16 |-> 15 - padded[i]])

\* format!("{:X}", v) of an i64: uppercase, no padding, a negative value as its
\* 64-bit two's complement
FormatX(v) ==
    LET d == IF v.neg /\ v.digits # <<0>> THEN TwosComplement64(v.digits) ELSE v.digits
    IN  [i \in 1..Len(d) |-> HexChar(d[i])]

\* format!("{:X},{:X}", a, b).as_bytes() of a coordinate given in whole degrees
CoordPayload(c) ==
    FormatX(from_deg_to_i64(c[1])) \o <<Comma>> \o FormatX(from_deg_to_i64(c[2]))

----------------------------------------------------------------------------
(* Results: io::Result values, and a panic that aborts the call *)

NoResult == [kind |-> "None", err |-> "", val |-> <<>>]

Ok(v) == [kind |-> "Ok", err |-> "", val |-> v]

Err(e) == [kind |-> "Err", err |-> e, val |-> <<>>]

Panicked == [kind |-> "Panic", err |-> "", val |-> <<>>]

----------------------------------------------------------------------------
(* Operations and their arguments *)

MountOps == {"get_position_ra_dec", "get_position_az_el", "goto_ra_dec", "goto_az_el",
             "sync", "get_tracking_mode", "set_tracking_mode", "slew_variable",
             "slew_fixed", "get_time", "get_version", "get_device_version",
             "get_model", "is_aligned", "goto_in_progress", "cancel_goto",
             "get_gps", "stop_slew"}

\* Gps::get_device_version is named gps_get_device_version here
GpsOps == {"is_linked", "get_location", "gps_get_device_version"}

RtcOps == {"get_datetime", "set_datetime_now"}

\* the private primitive write_passthrough, called with the device, the command
\* and any number of argument bytes
PrimitiveOps == {"write_passthrough"}

Ops == MountOps \cup GpsOps \cup RtcOps \cup PrimitiveOps

\* coordinates handed to goto and sync, in whole degrees
Coords == {<<90, 45>>}

\* two instants the system clock shows: <<year, month, day, hour, minute, second>>
Instants == << <<2024, 12, 31, 23, 59, 59>>, <<2025, 1, 1, 0, 0, 0>> >>

\* set_datetime_now reads the clock twice: the date from the first reading, the
\* time from the second
\* (kept after them: the time of the first reading)
ClockReadings ==
    {<<Instants[1][2], Instants[1][3], Instants[1][1],
       Instants[2][4], Instants[2][5], Instants[2][6],
       Instants[1][4], Instants[1][5], Instants[1][6]>>}

\* the same, and the two readings falling into the same second
SessionReadings ==
    ClockReadings
    \cup {<<Instants[1][2], Instants[1][3], Instants[1][1],
            Instants[1][4], Instants[1][5], Instants[1][6],
            Instants[1][4], Instants[1][5], Instants[1][6]>>}

\* the operations called against the mount that moves, with their arguments
SessionArgs(o) ==
    CASE o \in {"goto_ra_dec", "goto_az_el"} -> {<<90, 45>>, <<1, 45>>}
      [] o = "sync" -> {<<90, 45>>}
      [] o = "slew_variable" -> {<<0, 1, 16384>>}
      [] o = "set_datetime_now" -> SessionReadings
      [] o \in {"goto_in_progress", "get_position_ra_dec", "get_position_az_el",
                "get_datetime", "get_gps"} -> {<<>>}
      [] OTHER -> {}

\* angles in whole degrees handed to goto and sync: inside [0, 360), negative,
\* and of a full turn or more
Degrees == {0, 1, 22, 23, 45, 90, 180, 270, 359, -90, -1, 360, 450}

CoordValues == {<<d, 45>> : d \in Degrees} \cup {<<90, d>> : d \in Degrees}

\* slew rates in arcseconds per second, up to the largest u16
SlewRates == {0, 1, 63, 64, 255, 1800, 4095, 16383, 16384, 65535}

\* the most argument bytes handed to write_passthrough, two more than it accepts
MaxArgs == 5

\* arguments: <<axis, direction, rate>> for the slews, <<mode>>, <<device>>,
\* <<device, command, argument bytes...>> for write_passthrough
Args(prof, o) ==
    CASE o = "write_passthrough" ->
            IF prof = "values"
            THEN {<<RtcUnit, 131>> \o [i \in 1..k |-> 10 + i] : k \in 0..MaxArgs}
            ELSE {}
      [] prof = "session" -> SessionArgs(o)
      [] o \in {"goto_ra_dec", "goto_az_el", "sync"} ->
            IF prof = "values" THEN CoordValues ELSE Coords
      [] o = "set_tracking_mode" ->
            IF prof = "values" THEN {<<m>> : m \in 0..3} ELSE {<<2>>}
      [] o = "slew_variable" ->
            IF prof = "values"
            THEN {<<axis, dir, rate>> : axis \in {0, 1}, dir \in {0, 1}, rate \in SlewRates}
            ELSE {<<1, 0, 1800>>, <<0, 1, 16384>>}
      [] o = "slew_fixed" -> {<<0, 1, 9>>}
      [] o = "stop_slew" -> IF prof = "values" THEN {<<0>>, <<1>>} ELSE {<<0>>}
      [] o = "get_device_version" -> {<<AzRaMotor>>, <<RtcUnit>>}
      [] o = "set_datetime_now" -> ClockReadings
      [] OTHER -> {<<>>}

----------------------------------------------------------------------------
(* Frames *)

\* slew_rate without the scaling by four
slew_rate_unscaled(rate) ==
    LET p == rate % 65536 IN <<p \div 256, p % 256>>

\* slew_rate(rate): the u16 product rate * 4 as the release build computes it
slew_rate(rate) ==
    LET p == (rate * 4) % 65536 IN <<p \div 256, p % 256>>

\* the u16 product rate * 4 overflows: a panic in a build with overflow checks
slew_rate_overflows(rate) == rate * 4 > 65535

\* read_passthrough: [b'P', 1, dev, cmd, 0, 0, 0, resp_len as u8]
ReadPassthroughFrame(dev, cmd, respLen) ==
    <<PrefixP, 1, dev, cmd, 0, 0, 0, respLen % 256>>

\* a write_passthrough frame whose second byte is the number of arguments
WritePassthroughFrameCount(dev, cmd, args) ==
    <<PrefixP, Len(args), dev, cmd>> \o args \o Zeros(3 - Len(args)) \o <<0>>

\* write_passthrough: [b'P', args.len() + 1, dev, cmd, 0, 0, 0, 0] with the
\* arguments copied to positions 4..
WritePassthroughFrame(dev, cmd, args) ==
    <<PrefixP, Len(args) + 1, dev, cmd>> \o args \o Zeros(3 - Len(args)) \o <<0>>

\* a read_handcontrol that ends its command with '#'
ReadHandcontrolFrameHash(cmd) == <<cmd, Hash>>

\* read_handcontrol: the opcode alone
ReadHandcontrolFrame(cmd) == <<cmd>>

\* write_handcontrol: the opcode followed by the arguments
WriteHandcontrolFrame(cmd, args) == <<cmd>> \o args

\* set_datetime_now writing the time before the date and the year
SetDatetimeCommandTimeFirst(st) == IF st = 1 THEN 179 ELSE IF st = 2 THEN 131 ELSE 132

\* set_datetime_now: the sub-command of its write number st
SetDatetimeCommand(st) == IF st = 1 THEN 131 ELSE IF st = 2 THEN 132 ELSE 179

SlewDevice(axis) == IF axis = 0 THEN AzRaMotor ELSE ElDecMotor

\* slew_variable: the frame for an axis, a direction (0 positive, 1 negative)
\* and a rate
SlewVariableFrame(axis, dir, rate) ==
    WritePassthroughFrame(SlewDevice(axis), IF dir = 0 THEN 6 ELSE 7, slew_rate(rate))

\* a stop_slew that addresses the other axis
StopSlewFrameOtherAxis(axis) == SlewVariableFrame(1 - axis, 0, 0)

\* stop_slew: self.slew_variable(axis, SlewDir::Positive, 0)
StopSlewFrame(axis) == SlewVariableFrame(axis, 0, 0)

\* a goto that asks whether a goto is in progress
GotoFrameQuery(o, a) == ReadHandcontrolFrame(OpcodeL)

\* goto_ra_dec, goto_az_el and sync: the opcode and the formatted coordinate
GotoFrame(o, a) ==
    WriteHandcontrolFrame(IF o = "sync" THEN OpcodeS ELSE OpcodeR, CoordPayload(a))

\* The primitive an operation calls in round trip st: its kind (rp, wp, rh, wh),
\* the frame it writes and the response length it asks for
RoundTrip(o, a, st) ==
    LET rp(dev, cmd, n) == [kind |-> "rp", frame |-> ReadPassthroughFrame(dev, cmd, n), len |-> n]
        wp(dev, cmd, args) == [kind |-> "wp", frame |-> WritePassthroughFrame(dev, cmd, args), len |-> 0]
        rh(cmd) == [kind |-> "rh", frame |-> ReadHandcontrolFrame(cmd), len |-> 0]
        wh(cmd, args) == [kind |-> "wh", frame |-> WriteHandcontrolFrame(cmd, args), len |-> 0]
    IN  CASE o = "get_position_ra_dec" -> rh(OpcodeE)
          [] o = "get_position_az_el" -> rh(OpcodeZ)
          [] o \in {"goto_ra_dec", "goto_az_el", "sync"} ->
                [kind |-> "wh", frame |-> GotoFrame(o, a), len |-> 0]
          [] o = "get_tracking_mode" -> rh(OpcodeT)
          [] o = "set_tracking_mode" -> wh(OpcodeSetT, <<a[1]>>)
          [] o = "slew_variable" ->
                [kind |-> "wp", frame |-> SlewVariableFrame(a[1], a[2], a[3]), len |-> 0]
          [] o = "slew_fixed" ->
                wp(SlewDevice(a[1]), IF a[2] = 0 THEN 36 ELSE 37, <<a[3]>>)
          [] o = "stop_slew" -> [kind |-> "wp", frame |-> StopSlewFrame(a[1]), len |-> 0]
          [] o = "write_passthrough" -> wp(a[1], a[2], SubSeq(a, 3, Len(a)))
          [] o = "get_time" -> rh(OpcodeH)
          [] o = "get_version" -> rh(OpcodeV)
          [] o = "get_device_version" -> rp(a[1], 254, 2)
          [] o \in {"get_model", "get_gps"} -> rh(OpcodeM)
          [] o = "is_aligned" -> rh(OpcodeJ)
          [] o = "goto_in_progress" -> rh(OpcodeL)
          [] o = "cancel_goto" -> rh(OpcodeQ)
          [] o = "is_linked" -> rp(GpsUnit, 55, 1)
          [] o = "get_location" ->
                IF st = 1 THEN rp(GpsUnit, 55, 1)
                ELSE IF st = 2 THEN rp(GpsUnit, 1, 3)
                ELSE rp(GpsUnit, 2, 3)
          [] o = "gps_get_device_version" -> rp(GpsUnit, 254, 2)
          [] o = "get_datetime" ->
                IF st = 1 THEN rp(RtcUnit, 3, 2)
                ELSE IF st = 2 THEN rp(RtcUnit, 4, 2)
                ELSE rp(RtcUnit, 51, 3)
          [] o = "set_datetime_now" ->
                LET cmd == SetDatetimeCommand(st)
                IN  IF cmd = 131 THEN wp(RtcUnit, cmd, <<a[1], a[2]>>)
                    ELSE IF cmd = 132 THEN wp(RtcUnit, cmd, <<a[3] \div 256, a[3] % 256>>)
                    ELSE wp(RtcUnit, cmd, <<a[4], a[5], a[6]>>)

----------------------------------------------------------------------------
(* Calendar checks made by chrono *)

IsLeap(y) == (y % 4 = 0 /\ y % 100 # 0) \/ y % 400 = 0

DaysIn(y, m) ==
    IF m = 2 THEN (IF IsLeap(y) THEN 29 ELSE 28)
    ELSE IF m \in {4, 6, 9, 11} THEN 30 ELSE 31

ValidYMD(y, m, d) == m \in 1..12 /\ d >= 1 /\ d <= DaysIn(y, m)

\* an i8 read from one byte
AsI8(b) == IF b > 127 THEN b - 256 ELSE b

----------------------------------------------------------------------------
(* The private primitives of CelestronMount, after port.read returned n bytes
   into buf *)

\* read_port without its check of the last byte
read_port_unchecked(buf, n) ==
    IF n = 0 THEN Panicked ELSE Ok(<<n>>)

\* read_port: the terminator check on the last byte received; recv[n - 1] with
\* n = 0 is out of bounds and panics
read_port(buf, n) ==
    IF n = 0 THEN Panicked
    ELSE IF buf[n] # Hash THEN Err("InvalidData")
    ELSE Ok(<<n>>)

\* read_passthrough taking every reply of resp_len + 1 bytes or more as a success
read_passthrough_at_least(buf, n, respLen) ==
    LET r == read_port(buf, n)
    IN  IF r.kind # "Ok" THEN r
        ELSE IF buf[n] # Hash THEN Err("InvalidData")
        ELSE IF n >= respLen + 1 THEN Ok(SubSeq(buf, 1, respLen))
        ELSE Err("InvalidData")

\* read_passthrough: the classification of the received length against resp_len
read_passthrough(buf, n, respLen) ==
    LET r == read_port(buf, n)
    IN  IF r.kind # "Ok" THEN r
        ELSE IF buf[n] # Hash THEN Err("InvalidData")
        ELSE IF n = respLen + 1 THEN Ok(SubSeq(buf, 1, respLen))
        ELSE IF n = respLen + 2 THEN Err("NotConnected")
        ELSE Err("InvalidData")

\* write_passthrough: the read that clears the acknowledgement
write_passthrough(buf, n) ==
    LET r == read_port(buf, n)
    IN  IF r.kind # "Ok" THEN r ELSE Ok(<<>>)

\* read_handcontrol: everything before the terminator
read_handcontrol(buf, n) ==
    LET r == read_port(buf, n)
    IN  IF r.kind # "Ok" THEN r
        ELSE IF buf[n] # Hash THEN Err("InvalidData")
        ELSE Ok(SubSeq(buf, 1, n - 1))

\* write_handcontrol: the read that clears the acknowledgement
write_handcontrol(buf, n) ==
    LET r == read_port(buf, n)
    IN  IF r.kind # "Ok" THEN r ELSE Ok(<<>>)

Primitive(kind, buf, n, respLen) ==
    CASE kind = "rp" -> read_passthrough(buf, n, respLen)
      [] kind = "wp" -> write_passthrough(buf, n)
      [] kind = "rh" -> read_handcontrol(buf, n)
      [] kind = "wh" -> write_handcontrol(buf, n)

----------------------------------------------------------------------------
(* The facade operations, from the value their primitive returned *)

\* from_msg that insists on the comma between the fields
from_msg_comma(buf) ==
    LET f1 == SubSeq(buf, 1, 8)
        f2 == SubSeq(buf, 10, 17)
    IN  IF from_msg_ok(f1) /\ from_msg_ok(f2) /\ buf[9] = Comma
        THEN Ok(<<from_i64_to_deg(from_msg_to_i64(f1)),
                  from_i64_to_deg(from_msg_to_i64(f2))>>)
        ELSE Panicked

\* RADec::from_msg / AzEl::from_msg on the whole receive buffer: bytes [0..8) and
\* [9..=16], each unwrap a panic on a field that does not parse
from_msg(buf) ==
    LET f1 == SubSeq(buf, 1, 8)
        f2 == SubSeq(buf, 10, 17)
    IN  IF from_msg_ok(f1) /\ from_msg_ok(f2)
        THEN Ok(<<from_i64_to_deg(from_msg_to_i64(f1)),
                  from_i64_to_deg(from_msg_to_i64(f2))>>)
        ELSE Panicked

\* get_tracking_mode with a mode returned for an unknown byte
get_tracking_mode_default(buf) ==
    CASE buf[1] = 1 -> Ok(<<"AzEl">>)
      [] buf[1] = 2 -> Ok(<<"EQNorth">>)
      [] buf[1] = 3 -> Ok(<<"EQSouth">>)
      [] OTHER -> Ok(<<"Off">>)

get_tracking_mode(buf) ==
    CASE buf[1] = 0 -> Ok(<<"Off">>)
      [] buf[1] = 1 -> Ok(<<"AzEl">>)
      [] buf[1] = 2 -> Ok(<<"EQNorth">>)
      [] buf[1] = 3 -> Ok(<<"EQSouth">>)
      [] OTHER -> Err("InvalidData")

\* the UTC offset in hours that get_time computes, and the panic of the i8 sum
get_time_offset(res) == AsI8(res[7]) + (IF res[8] = 1 THEN 0 ELSE 1)

get_time(res) ==
    IF Len(res) # 8 THEN {Err("InvalidData")}
    ELSE LET year == res[6] + 2000
             ofst == get_time_offset(res)
             wrapped == IF ofst > 127 THEN ofst - 256 ELSE ofst
             parsed(h) ==
                 IF /\ res[1] <= 23 /\ res[2] <= 59 /\ res[3] <= 60
                    /\ ValidYMD(year, res[4], res[5])
                    /\ h >= -23 /\ h <= 23
                 THEN Ok(<<year, res[4], res[5], res[1], res[2], res[3], h>>)
                 ELSE Err("InvalidData")
         IN  IF ofst > 127 THEN {Panicked, parsed(wrapped)} ELSE {parsed(ofst)}

get_version(res) ==
    IF Len(res) # 2 THEN Err("InvalidData") ELSE Ok(<<res[1], res[2]>>)

Models == {1, 3, 4, 5, 6, 7, 9, 10, 11, 12, 14, 20, 22}

GPSSeries == 1

\* enum Model: the variant of each identifier
Model(b) ==
    CASE b = GPSSeries -> "GPSSeries"
      [] b = 3 -> "ISeries"
      [] b = 4 -> "ISeriesSe"
      [] b = 5 -> "Cge"
      [] b = 6 -> "AdvancedGT"
      [] b = 7 -> "Slt"
      [] b = 9 -> "Cpc"
      [] b = 10 -> "Gt"
      [] b = 11 -> "FourFiveSE"
      [] b = 12 -> "SixEightSE"
      [] b = 14 -> "Cgem"
      [] b = 20 -> "AdvancedVX"
      [] b = 22 -> "Evolution"

\* get_model with a model returned for an unknown identifier
get_model_default(res) ==
    IF Len(res) # 1 THEN Err("InvalidData")
    ELSE IF res[1] \in Models THEN Ok(<<Model(res[1])>>)
    ELSE Ok(<<"GPSSeries">>)

get_model(res) ==
    IF Len(res) # 1 THEN Err("InvalidData")
    ELSE IF res[1] \in Models THEN Ok(<<Model(res[1])>>)
    ELSE Err("InvalidData")

is_aligned(res) ==
    IF Len(res) # 1 THEN Err("InvalidData")
    ELSE IF res[1] = 0 THEN Ok(<<0>>)
    ELSE IF res[1] = 1 THEN Ok(<<1>>)
    ELSE Err("InvalidData")

goto_in_progress(res) ==
    IF Len(res) # 1 THEN Err("InvalidData")
    ELSE IF res[1] = 48 THEN Ok(<<0>>)
    ELSE IF res[1] = 49 THEN Ok(<<1>>)
    ELSE Err("InvalidData")

\* cancel_goto that takes the bare terminator as the acknowledgement
cancel_goto_ack(res) ==
    IF Len(res) = 0 THEN Ok(<<>>)
    ELSE IF Len(res) # 1 THEN Err("InvalidData")
    ELSE IF res[1] = 0 THEN Ok(<<>>)
    ELSE Err("InvalidData")

cancel_goto(res) ==
    IF Len(res) # 1 THEN Err("InvalidData")
    ELSE IF res[1] = 0 THEN Ok(<<>>)
    ELSE Err("InvalidData")

\* get_gps that hands out the handle for every model
get_gps_any(res) ==
    LET model == get_model(res)
    IN  IF model.kind # "Ok" THEN model ELSE Ok(<<>>)

get_gps(res) ==
    LET model == get_model(res)
    IN  IF model.kind # "Ok" THEN model
        ELSE IF model.val[1] = Model(GPSSeries) THEN Ok(<<>>)
        ELSE Err("NotFound")

is_linked(res) == IF res[1] = 0 THEN Ok(<<0>>) ELSE Ok(<<1>>)

\* a get_location that never takes the unit for unlinked
NotLinkedNever(res) == FALSE

\* get_location: !self.is_linked()?, on the payload is_linked read
NotLinked(res) == is_linked(res).val[1] = 0

\* chrono::Utc.with_ymd_and_hms(..).unwrap() on the six fields read from the RTC
get_datetime(f) ==
    LET year == f[3] * 256 + f[4]
    IN  IF ValidYMD(year, f[1], f[2]) /\ f[5] <= 23 /\ f[6] <= 59 /\ f[7] <= 59
        THEN Ok(<<year, f[1], f[2], f[5], f[6], f[7]>>)
        ELSE Panicked

\* What operation o does once the primitive of round trip st returned p: the set of
\* outcomes [more, saved, res], more = TRUE when another round trip follows
Continue(o, st, sv, buf, p) ==
    LET done(r) == {[more |-> FALSE, saved |-> sv, res |-> r]}
        next(keep) == {[more |-> TRUE, saved |-> keep, res |-> NoResult]}
    IN  IF p.kind # "Ok" THEN done(p)
        ELSE CASE o \in {"get_position_ra_dec", "get_position_az_el"} -> done(from_msg(buf))
               [] o = "get_tracking_mode" -> done(get_tracking_mode(buf))
               [] o = "get_time" ->
                    {[more |-> FALSE, saved |-> sv, res |-> r] : r \in get_time(p.val)}
               [] o = "get_version" -> done(get_version(p.val))
               [] o \in {"get_device_version", "gps_get_device_version"} -> done(Ok(p.val))
               [] o = "get_model" -> done(get_model(p.val))
               [] o = "is_aligned" -> done(is_aligned(p.val))
               [] o = "goto_in_progress" -> done(goto_in_progress(p.val))
               [] o = "cancel_goto" -> done(cancel_goto(p.val))
               [] o = "get_gps" -> done(get_gps(p.val))
               [] o = "is_linked" -> done(is_linked(p.val))
               [] o = "get_location" ->
                    IF st = 1 THEN
                        (IF NotLinked(p.val) THEN done(Err("InvalidData"))
                         ELSE next(sv))
                    ELSE IF st = 2 THEN next(p.val)
                    ELSE done(Ok(sv \o p.val))
               [] o = "get_datetime" ->
                    IF st < 3 THEN next(sv \o p.val)
                    ELSE done(get_datetime(sv \o p.val))
               [] o = "set_datetime_now" ->
                    IF st < 3 THEN next(sv) ELSE done(Ok(<<>>))
               [] OTHER -> done(Ok(<<>>))

----------------------------------------------------------------------------
(* The mount at the other end of the line *)

\* bytes the mount's replies are made of: 0, 1 and ASCII '0'
DataBytes == {0, 1, 48}

\* a reply of n bytes: n - 1 times the byte b, then the byte t
Reply(n, b, t) == Fill(n - 1, b) \o <<t>>

\* the payload length the protocol defines for the reply to a frame
ExpectedPayload(frame) ==
    IF frame[1] = PrefixP THEN frame[8]
    ELSE IF frame[1] \in {OpcodeE, OpcodeZ} THEN 17
    ELSE IF frame[1] \in {OpcodeT, OpcodeM, OpcodeJ, OpcodeL, OpcodeQ} THEN 1
    ELSE IF frame[1] = OpcodeH THEN 8
    ELSE IF frame[1] = OpcodeV THEN 2
    ELSE 0

\* the commands that read or change the state of the mount: goto, sync, the
\* goto-in-progress and position queries, and the commands to its clock
Stateful(frame) ==
    \/ frame[1] \in {OpcodeR, OpcodeS, OpcodeL, OpcodeE, OpcodeZ}
    \/ frame[1] = PrefixP /\ frame[3] = RtcUnit /\ frame[4] \in {3, 4, 51, 131, 132, 179}

\* what the mount still owes for a frame it received; the opcode is kept where
\* the replies explored depend on it, the frame where the mount acts on it
Owed(prof, frame) ==
    [len |-> ExpectedPayload(frame), pt |-> frame[1] = PrefixP /\ frame[8] > 0,
     cmd |-> IF prof = "values" THEN frame[1] ELSE 0,
     frame |-> IF \/ prof = "session" /\ Stateful(frame)
                  \/ prof = "values" /\ frame[1] \in {OpcodeR, OpcodeS}
               THEN frame ELSE <<>>]

\* the replies of the profile "line": the reply of the right length, made of
\* the byte 1 or of ASCII '0'
LineReplies(owed) == {Reply(owed.len + 1, b, Hash) : b \in {1, 48}}

\* the replies of the profile "replies": beside those, every length the receive buffer can
\* take, every data byte, with and without terminator
AllReplies == {Reply(n, b, t) : n \in 1..RecvLen, b \in DataBytes, t \in {Hash, 0}}

\* angle fields of a position reply: the digits of integer angles, in uppercase
\* and in lowercase
AngleDigits ==
    {<<0, 0, 0, 0, 0, 0, 0, 0>>, <<0, 0, 0, 0, 0, 0, 0, 1>>, <<4, 0, 0, 0, 0, 0, 0, 0>>,
     <<1, 2, 10, 11, 3, 4, 12, 13>>, <<15, 15, 15, 15, 15, 15, 15, 15>>}

HexFields ==
    {[i \in 1..8 |-> HexChar(d[i])] : d \in AngleDigits}
    \cup {[i \in 1..8 |-> IF d[i] < 10 THEN 48 + d[i] ELSE 87 + d[i]] : d \in AngleDigits}

\* fields that are no hexadecimal number: "0000000G", blanks, NUL bytes, bytes
\* that are no UTF-8
BadFields ==
    {<<48, 48, 48, 48, 48, 48, 48, 71>>, Fill(8, 32), Fill(8, 0), Fill(8, 255)}

\* position replies: 18 bytes, the byte between the fields a comma or not
PositionReplies ==
    LET good == <<50, 48, 48, 48, 48, 48, 48, 48>>
    IN  {f \o <<sep>> \o good \o <<Hash>> :
            f \in HexFields \cup BadFields, sep \in {Comma, 0, 48, 255}}
        \cup {good \o <<Comma>> \o f \o <<Hash>> : f \in HexFields \cup BadFields}

\* UTC-offset bytes of a time reply (as i8: 0, 5, 14, 22, 23, 127, -128, -24,
\* -23, -5, -1) and daylight-flag bytes
OffsetBytes == {0, 5, 14, 22, 23, 127, 128, 232, 233, 251, 255}

DstBytes == {0, 1, 2}

\* time replies: [hour, min, sec, month, day, year, offset, dst] and '#', with
\* date-times that exist and that do not, and payloads of 7 and of 9 bytes
TimeReplies ==
    {<<10, 30, 0, 6, 15, 24, off, dst, Hash>> : off \in OffsetBytes, dst \in DstBytes}
    \cup {<<23, 59, 59, 12, 31, 99, 0, 1, Hash>>, <<0, 0, 0, 2, 29, 24, 0, 1, Hash>>,
          <<0, 0, 0, 2, 30, 24, 0, 1, Hash>>, <<24, 0, 0, 6, 15, 24, 0, 1, Hash>>,
          <<10, 60, 0, 6, 15, 24, 0, 1, Hash>>, <<10, 30, 0, 13, 1, 24, 0, 1, Hash>>,
          <<10, 30, 0, 0, 15, 24, 0, 1, Hash>>, <<10, 30, 0, 6, 0, 24, 0, 1, Hash>>}
    \cup {<<10, 30, 0, 6, 15, 24, 0, Hash>>, <<10, 30, 0, 6, 15, 24, 0, 0, 0, Hash>>,
          <<Hash>>}

\* the replies of the profile "values": replies of the right length whose bytes
\* range over the values the operation decodes
ValueReplies(owed) ==
    IF owed.cmd \in {OpcodeT, OpcodeM} THEN {<<b, Hash>> : b \in 0..255}
    ELSE IF owed.cmd \in {OpcodeE, OpcodeZ} THEN PositionReplies
    ELSE IF owed.cmd = OpcodeH THEN TimeReplies
    ELSE LineReplies(owed)

Replies(prof, owed) ==
    IF prof \in {"line", "session"} THEN LineReplies(owed)
    ELSE IF prof = "values" THEN ValueReplies(owed)
    ELSE AllReplies

\* 1 for a reply that is not the one the protocol defines for the command
Fault(r, owed) == IF r \in LineReplies(owed) THEN 0 ELSE 1

\* replies the mount may deliver in two parts, the first byte ahead of the rest
SplitReplies(owed) ==
    IF owed.len > 0 /\ owed.frame = <<>> THEN {Reply(owed.len + 1, 1, Hash)} ELSE {}

\* the clock of the mount one second later
\* (rtc: month, day, year high, year low, hour, minute, second)
NextSecond(rtc) ==
    LET y == rtc[3] * 256 + rtc[4]
    IN  IF rtc[7] < 59 THEN [rtc EXCEPT ![7] = @ + 1]
        ELSE IF rtc[6] < 59 THEN [rtc EXCEPT ![7] = 0, ![6] = @ + 1]
        ELSE IF rtc[5] < 23 THEN [rtc EXCEPT ![7] = 0, ![6] = 0, ![5] = @ + 1]
        ELSE IF rtc[2] < DaysIn(y, rtc[1])
             THEN [rtc EXCEPT ![7] = 0, ![6] = 0, ![5] = 0, ![2] = @ + 1]
        ELSE IF rtc[1] < 12
             THEN [rtc EXCEPT ![7] = 0, ![6] = 0, ![5] = 0, ![2] = 1, ![1] = @ + 1]
        ELSE <<1, 1, (y + 1) \div 256, (y + 1) % 256, 0, 0, 0>>

\* the clock when the mount answers a read of it: as it was, or a second later
Ticked(rtc) == {rtc, NextSecond(rtc)}

\* the mount at power-up: pointing at 180 and 22.5 degrees, at rest, its clock at
\* 2000-01-01 00:00:00; seen: the values the clock has shown since the last read
\* of its month and day was answered
MountInit ==
    [pos |-> <<<<8, 0, 0, 0, 0, 0, 0, 0>>, <<1, 0, 0, 0, 0, 0, 0, 0>>>>,
     target |-> <<<<8, 0, 0, 0, 0, 0, 0, 0>>, <<1, 0, 0, 0, 0, 0, 0, 0>>>>,
     moving |-> FALSE,
     rtc |-> <<1, 1, 7, 208, 0, 0, 0>>,
     seen |-> {}]

\* the payload of a goto or sync frame is two fields of 8 hexadecimal digits
\* with a comma between them
CoordParsable(payload) ==
    /\ Len(payload) = 17
    /\ payload[9] = Comma
    /\ \A i \in (1..8) \cup (10..17) : IsHexDigit(payload[i])

CoordParsed(payload) ==
    <<[i \in 1..8 |-> HexDigitVal(payload[i])], [i \in 1..8 |-> HexDigitVal(payload[9 + i])]>>

\* the position reply: two fields of 8 uppercase hexadecimal digits, ',', '#'
PositionReply(pos) ==
    [i \in 1..8 |-> HexChar(pos[1][i])] \o <<Comma>>
        \o [i \in 1..8 |-> HexChar(pos[2][i])] \o <<Hash>>

\* the answers of the mount that moves to a command that reads or changes its
\* state: the bytes it sends and the state it is in afterwards. Its clock runs: a
\* read of it is answered from the clock as it is then. A goto starts a
\* motion to the angles parsed from the payload; the motion is over when the
\* mount says so in its answer to the goto-in-progress query; a payload that is
\* no pair of 8-digit fields starts nothing.
SessionAnswers(f, m) ==
    LET one(bytes, after) == {[bytes |-> bytes, mount |-> after, fault |-> 0]}
    IN  CASE f[1] = OpcodeR ->
                one(<<Hash>>, IF CoordParsable(Tail(f))
                              THEN [m EXCEPT !.target = CoordParsed(Tail(f)), !.moving = TRUE]
                              ELSE m)
          [] f[1] = OpcodeS ->
                one(<<Hash>>, IF CoordParsable(Tail(f))
                              THEN [m EXCEPT !.pos = CoordParsed(Tail(f)),
                                             !.target = CoordParsed(Tail(f)),
                                             !.moving = FALSE]
                              ELSE m)
          [] f[1] = OpcodeL ->
                one(<<48, Hash>>, [m EXCEPT !.pos = m.target, !.moving = FALSE])
                \cup (IF m.moving THEN one(<<49, Hash>>, m) ELSE {})
          [] f[1] \in {OpcodeE, OpcodeZ} -> one(PositionReply(m.pos), m)
          [] f[4] = 131 -> one(<<Hash>>, [m EXCEPT !.rtc[1] = f[5], !.rtc[2] = f[6]])
          [] f[4] = 132 -> one(<<Hash>>, [m EXCEPT !.rtc[3] = f[5], !.rtc[4] = f[6]])
          [] f[4] = 179 ->
                one(<<Hash>>, [m EXCEPT !.rtc[5] = f[5], !.rtc[6] = f[6], !.rtc[7] = f[7]])
          [] f[4] = 3 ->
                {[bytes |-> <<t[1], t[2], Hash>>, fault |-> 0,
                  mount |-> [m EXCEPT !.rtc = t, !.seen = {m.rtc, t}]] : t \in Ticked(m.rtc)}
          [] f[4] = 4 ->
                {[bytes |-> <<t[3], t[4], Hash>>, fault |-> 0,
                  mount |-> [m EXCEPT !.rtc = t, !.seen = @ \cup {t}]] : t \in Ticked(m.rtc)}
          [] f[4] = 51 ->
                {[bytes |-> <<t[5], t[6], t[7], Hash>>, fault |-> 0,
                  mount |-> [m EXCEPT !.rtc = t, !.seen = @ \cup {t}]] : t \in Ticked(m.rtc)}

\* the answers of the mount to the oldest command it owes an answer
MountAnswers(prof, owed, m) ==
    IF owed.frame # <<>> THEN SessionAnswers(owed.frame, m)
    ELSE {[bytes |-> r, mount |-> m, fault |-> Fault(r, owed)] : r \in Replies(prof, owed)}

\* what the caller keeps of the calls that returned: the coordinate of the last
\* goto if it returned Ok, whether goto_in_progress returned false since, and
\* the clock readings of the last set_datetime_now if it returned Ok
NoHistory == [goto |-> <<>>, gotoOp |-> "none", settled |-> FALSE, set |-> <<>>]

Learn(h, o, a, res) ==
    CASE o \in {"goto_ra_dec", "goto_az_el"} ->
            [h EXCEPT !.goto = IF res.kind = "Ok" THEN a ELSE <<>>,
                      !.gotoOp = IF res.kind = "Ok" THEN o ELSE "none",
                      !.settled = FALSE]
      [] o \in {"sync", "slew_variable"} ->
            [h EXCEPT !.goto = <<>>, !.gotoOp = "none", !.settled = FALSE]
      [] o = "goto_in_progress" ->
            [h EXCEPT !.settled = h.goto # <<>> /\ (h.settled \/ res = Ok(<<0>>))]
      [] o = "set_datetime_now" ->
            [h EXCEPT !.set = IF res.kind = "Ok" THEN a ELSE <<>>]
      [] OTHER -> h

----------------------------------------------------------------------------
(* The state machine *)

\* the driver as CelestronMount::new leaves it
Fresh ==
    /\ pc = "idle"
    /\ lock = FALSE
    /\ op = "none"
    /\ arg = <<>>
    /\ step = 0
    /\ saved = <<>>
    /\ rlen = -1
    /\ result = NoResult
    /\ rx = <<>>
    /\ pending = <<>>
    /\ mountOut = <<>>
    /\ calls = 0
    /\ wire = <<>>
    /\ reads = 0
    /\ unread = FALSE
    /\ split = FALSE
    /\ faults = 0
    /\ mount = MountInit
    /\ hist = NoHistory

Init ==
    /\ Fresh
    /\ recv = Zeros(RecvLen)
    /\ gps = FALSE
    /\ profile = "line"

\* a new driver, or one whose caller holds the handle that get_gps returned after
\* the model query was answered with the GPS Series identifier
InitReplies ==
    /\ Fresh
    /\ profile = "replies"
    /\ \/ /\ gps = FALSE
          /\ recv = Zeros(RecvLen)
       \/ /\ gps = TRUE
          /\ recv = Overlay(Zeros(RecvLen), <<GPSSeries, Hash>>)

\* a new driver whose mount answers with every value of a reply byte
InitValues ==
    /\ Fresh
    /\ recv = Zeros(RecvLen)
    /\ gps = FALSE
    /\ profile = "values"

\* a new driver whose mount moves on goto and keeps its clock
InitSession ==
    /\ Fresh
    /\ recv = Zeros(RecvLen)
    /\ gps = FALSE
    /\ profile = "session"

mountVars == <<rx, pending, mountOut, split, faults, mount>>

\* calls made in one behaviour: MaxCalls on the line, one where the replies of
\* every shape are explored
CallLimit(prof) ==
    IF prof = "line" THEN MaxCalls ELSE IF prof = "session" THEN SessionCalls ELSE 1

\* a driver whose operations took &self: a call could start at any time
BorrowShared == TRUE

\* every operation takes &mut self: a call starts only when no call is running
BorrowFree == pc = "idle"

\* the operations the borrow rules let the caller invoke: the Gps operations on
\* a CelestronGps handle, the others while no handle borrows the mount
Callable(o) == IF gps THEN o \in GpsOps ELSE o \in MountOps \cup RtcOps \cup PrimitiveOps

\* a write_passthrough that copies whatever arguments it is given
TooManyArgsNever(args) == FALSE

\* write_passthrough: if args.len() > 3
TooManyArgs(args) == Len(args) > 3

\* how a call begins: write_passthrough returns InvalidInput at once when it is
\* given too many arguments; slew_variable first computes slew_rate(rate), whose
\* overflow aborts the call in a build with overflow checks; otherwise the
\* first round trip starts
CallEntry(o, a) ==
    IF o = "write_passthrough" /\ TooManyArgs(SubSeq(a, 3, Len(a)))
    THEN {[pc |-> "done", res |-> Err("InvalidInput")]}
    ELSE {[pc |-> "write_all", res |-> NoResult]} \cup
         (IF o = "slew_variable" /\ slew_rate_overflows(a[3])
          THEN {[pc |-> "aborted", res |-> Panicked]}
          ELSE {})

\* a call begins
Call(o, a) ==
    /\ BorrowFree
    /\ calls < CallLimit(profile)
    /\ Callable(o)
    /\ calls' = calls + 1
    /\ op' = o
    /\ arg' = a
    /\ step' = 1
    /\ saved' = <<>>
    /\ rlen' = -1
    /\ wire' = <<>>
    /\ reads' = 0
    /\ \E e \in CallEntry(o, a) :
            /\ pc' = e.pc
            /\ result' = e.res
    /\ UNCHANGED <<lock, recv, gps, profile, hist, unread, mountVars>>

\* self.port.lock().unwrap()
Acquire ==
    /\ pc \in {"write_all", "bytes_to_read", "read"}
    /\ ~lock
    /\ lock' = TRUE
    /\ UNCHANGED <<pc, op, arg, step, saved, recv, rlen, result, gps, calls, wire,
                   reads, profile, hist, unread, mountVars>>

\* a port reached without locking the mutex
HoldsPortUnchecked == TRUE

\* the port is reached through the guard that self.port.lock().unwrap() gave
HoldsPort == lock

\* a guard that outlives the statement or function that took it
KeepGuard == lock' = lock

\* the guard is dropped: at the end of the statement in write_port, at the
\* return of read_port, and on the early returns through `?`
DropGuard == lock' = FALSE

\* a write_port that puts the frame on the line twice
WriteTwice ==
    /\ pc = "write_all"
    /\ HoldsPort
    /\ LET frame == RoundTrip(op, arg, step).frame
       IN  /\ wire' = wire \o <<frame, frame>>
           /\ pending' = pending \o <<Owed(profile, frame), Owed(profile, frame)>>
    /\ DropGuard
    /\ pc' = "bytes_to_read"
    /\ unread' = TRUE
    /\ rlen' = -1
    /\ UNCHANGED <<op, arg, step, saved, recv, result, gps, calls, reads, profile, hist,
                   rx, mountOut, split, faults, mount>>

\* write_port: write_all(buf) puts the whole frame on the line
WriteOk ==
    /\ pc = "write_all"
    /\ HoldsPort
    /\ LET frame == RoundTrip(op, arg, step).frame
       IN  /\ wire' = Append(wire, frame)
           /\ pending' = Append(pending, Owed(profile, frame))
    /\ DropGuard
    /\ pc' = "bytes_to_read"
    /\ unread' = TRUE
    /\ rlen' = -1
    /\ UNCHANGED <<op, arg, step, saved, recv, result, gps, calls, reads, profile, hist,
                   rx, mountOut, split, faults, mount>>

\* an operation that starts its round trip again instead of returning the error
FailRetry(e) ==
    /\ result' = NoResult
    /\ pc' = "write_all"

\* the error an operation returns through `?`
Fail(e) ==
    /\ result' = Err(e)
    /\ pc' = "done"

\* write_port: write_all(buf)? fails and the call returns the error
WriteErr ==
    /\ pc = "write_all"
    /\ HoldsPort
    /\ DropGuard
    /\ Fail("Io")
    /\ UNCHANGED <<op, arg, step, saved, recv, rlen, gps, calls, wire, reads, profile, hist, unread, mountVars>>

\* write_port: bytes_to_read() is 0, sleep 10 ms and test again
PollZero ==
    /\ pc = "bytes_to_read"
    /\ HoldsPort
    /\ rx = <<>>
    /\ DropGuard
    /\ UNCHANGED <<pc, op, arg, step, saved, recv, rlen, result, gps, calls, wire,
                   reads, profile, hist, unread, mountVars>>

\* write_port: bytes_to_read() is not 0, write_port returns Ok
PollReady ==
    /\ pc = "bytes_to_read"
    /\ HoldsPort
    /\ rx # <<>>
    /\ DropGuard
    /\ pc' = "read"
    /\ UNCHANGED <<op, arg, step, saved, recv, rlen, result, gps, calls, wire,
                   reads, profile, hist, unread, mountVars>>

\* write_port: bytes_to_read()? fails and the call returns the error
PollErr ==
    /\ pc = "bytes_to_read"
    /\ HoldsPort
    /\ DropGuard
    /\ Fail("Io")
    /\ UNCHANGED <<op, arg, step, saved, recv, rlen, gps, calls, wire, reads, profile, hist, unread, mountVars>>

\* what follows the read of round trip `step`: the primitive's checks, the
\* operation's use of the value, and either the next round trip or the return
AfterRead(buf, n) ==
    LET rt == RoundTrip(op, arg, step)
        p == Primitive(rt.kind, buf, n, rt.len)
    IN  \E c \in Continue(op, step, saved, buf, p) :
            /\ saved' = c.saved
            /\ IF c.more
               THEN /\ pc' = "write_all"
                    /\ step' = step + 1
                    /\ result' = NoResult
               ELSE /\ pc' = IF c.res.kind = "Panic" THEN "aborted" ELSE "done"
                    /\ step' = step
                    /\ result' = c.res

\* read_port: one port.read into recv returns the n > 0 bytes that are there
Read ==
    /\ pc = "read"
    /\ HoldsPort
    /\ rx # <<>>
    /\ LET n == Min(Len(rx), RecvLen)
           buf == Overlay(recv, Take(rx, n))
       IN  /\ recv' = buf
           /\ rx' = Drop(rx, n)
           /\ rlen' = n
           /\ AfterRead(buf, n)
    /\ DropGuard
    /\ reads' = reads + 1
    /\ unread' = FALSE
    /\ UNCHANGED <<op, arg, gps, calls, wire, profile, hist, pending, mountOut, split, faults, mount>>

\* read_port: port.read returns Ok(0)
ReadZero ==
    /\ pc = "read"
    /\ HoldsPort
    /\ rlen' = 0
    /\ AfterRead(recv, 0)
    /\ DropGuard
    /\ reads' = reads + 1
    /\ unread' = FALSE
    /\ UNCHANGED <<op, arg, recv, gps, calls, wire, profile, hist, mountVars>>

\* read_port: port.read returns Err(e) and the call returns it
ReadErr ==
    /\ pc = "read"
    /\ HoldsPort
    /\ DropGuard
    /\ \E e \in {"TimedOut", "Io"} : Fail(e)
    /\ reads' = reads + 1
    /\ unread' = FALSE
    /\ UNCHANGED <<op, arg, step, saved, recv, rlen, gps, calls, wire, profile, hist,
                   mountVars>>

\* the call returns to its caller, who keeps the handle get_gps gave
Return ==
    /\ pc = "done"
    /\ pc' = "idle"
    /\ gps' = IF op = "get_gps" /\ result.kind = "Ok" THEN TRUE ELSE gps
    /\ op' = "none"
    /\ arg' = <<>>
    /\ step' = 0
    /\ saved' = <<>>
    /\ rlen' = -1
    /\ result' = NoResult
    /\ wire' = <<>>
    /\ reads' = 0
    /\ hist' = IF profile = "session" THEN Learn(hist, op, arg, result) ELSE hist
    /\ UNCHANGED <<lock, recv, calls, profile, unread, mountVars>>

\* the caller drops the CelestronGps handle
DropGps ==
    /\ pc = "idle"
    /\ gps
    /\ gps' = FALSE
    /\ UNCHANGED <<pc, lock, op, arg, step, saved, recv, rlen, result, calls, wire,
                   reads, profile, hist, unread, mountVars>>

driverVars == <<pc, lock, op, arg, step, saved, recv, rlen, result, gps, calls, wire,
                reads, profile, hist, unread>>

\* the mount answers the oldest command it has not answered yet
MountReply ==
    /\ pending # <<>>
    /\ mountOut = <<>>
    /\ \E r \in MountAnswers(profile, Head(pending), mount) :
            /\ faults + r.fault <= MaxFaults
            /\ faults' = faults + r.fault
            /\ rx' = rx \o r.bytes
            /\ mount' = r.mount
    /\ pending' = Tail(pending)
    /\ UNCHANGED <<mountOut, split>>
    /\ UNCHANGED driverVars

\* the mount delivers the first byte of a reply, the rest later
MountReplySplit ==
    /\ pending # <<>>
    /\ mountOut = <<>>
    /\ \E r \in SplitReplies(Head(pending)) :
            /\ rx' = rx \o Take(r, 1)
            /\ mountOut' = Drop(r, 1)
    /\ pending' = Tail(pending)
    /\ split' = TRUE
    /\ UNCHANGED <<faults, mount>>
    /\ UNCHANGED driverVars

\* the rest of a reply arrives
MountFlush ==
    /\ mountOut # <<>>
    /\ rx' = rx \o mountOut
    /\ mountOut' = <<>>
    /\ UNCHANGED <<pending, split, faults, mount>>
    /\ UNCHANGED driverVars

Next ==
    \/ \E o \in Ops : \E a \in Args(profile, o) : Call(o, a)
    \/ Acquire
    \/ WriteOk
    \/ WriteErr
    \/ PollZero
    \/ PollReady
    \/ PollErr
    \/ Read
    \/ ReadZero
    \/ ReadErr
    \/ Return
    \/ DropGps
    \/ MountReply
    \/ MountReplySplit
    \/ MountFlush

Spec == Init /\ [][Next]_vars

RepliesSpec == InitReplies /\ [][Next]_vars

ValuesSpec == InitValues /\ [][Next]_vars

SessionSpec == InitSession /\ [][Next]_vars

\* the driver's thread keeps running: a step of the call that stays possible is
\* taken; nothing is assumed of the mount
FairSpec ==
    /\ Spec
    /\ WF_vars(Acquire)
    /\ WF_vars(WriteOk \/ WriteErr)
    /\ WF_vars(PollZero \/ PollReady \/ PollErr)
    /\ WF_vars(Read \/ ReadZero \/ ReadErr)
    /\ WF_vars(Return)

----------------------------------------------------------------------------
(* Properties *)

\* the operations built on read_passthrough
PassthroughReads ==
    {"get_device_version", "gps_get_device_version", "is_linked", "get_location",
     "get_datetime"}

\* C1: a read_passthrough(dev, cmd, L) whose read (the read of round trip `step`
\* of the call, reads = step) returned n bytes ending in '#'
\* returns Ok with the first L received bytes when n = L + 1, NotConnected when
\* n = L + 2 and InvalidData for every other n in 1..32. The two device-version
\* operations return the primitive's value as it is; the other operations go on
\* to a further round trip only after n = L + 1.
C1_Classification ==
    /\ (pc \in {"done", "aborted"} /\ op \in PassthroughReads /\ reads = step
            /\ rlen >= 1 /\ recv[rlen] = Hash) =>
        LET L == RoundTrip(op, arg, step).len
        IN  /\ rlen = L + 2 => result = Err("NotConnected")
            /\ rlen \notin {L + 1, L + 2} => result = Err("InvalidData")
            /\ rlen = L + 1 => result # Err("NotConnected")
            /\ (rlen = L + 1 /\ op \in {"get_device_version", "gps_get_device_version"})
                    => result = Ok(SubSeq(recv, 1, L))
            /\ (rlen = L + 1 /\ op = "get_location" /\ step = 3)
                    => result = Ok(saved \o SubSeq(recv, 1, L))
    /\ (pc = "write_all" /\ op \in PassthroughReads /\ step > 1) =>
            rlen = RoundTrip(op, arg, step - 1).len + 1

\* a two-byte query answered by four bytes ending in '#': NotConnected
C1_Witness ==
    /\ pc = "done"
    /\ op = "get_device_version"
    /\ rlen = 4
    /\ recv[4] = Hash
    /\ result = Err("NotConnected")

\* C2: no operation returns Ok, or goes on to a further round trip, unless the
\* bytes its read received end with '#' at the received length; when the last
\* byte received is not '#' the call returns InvalidData.
C2_TerminatorRequired ==
    /\ result.kind = "Ok" => (rlen >= 1 /\ recv[rlen] = Hash)
    /\ (pc = "write_all" /\ step > 1) => (rlen >= 1 /\ recv[rlen] = Hash)
    /\ (pc \in {"done", "aborted"} /\ rlen >= 1 /\ recv[rlen] # Hash)
            => result = Err("InvalidData")

\* a position reply of the full 18 bytes whose last byte is not '#'
C2_Witness ==
    /\ pc = "done"
    /\ op = "get_position_az_el"
    /\ rlen = 18
    /\ recv[18] # Hash
    /\ result = Err("InvalidData")

\* C3: when the read of a round trip returns zero bytes the call returns a
\* TimedOut error value and does not abort.
C3_ZeroBytesTimeout ==
    rlen = 0 => (pc = "done" /\ result = Err("TimedOut"))

C5_CallReturns ==
    (pc = "bytes_to_read") ~> (pc \in {"done", "aborted"})

\* the operations that make three round trips
ThreeRoundTrips == {"get_location", "get_datetime", "set_datetime_now"}

\* C6 as stated: no call writes a second command frame or reads a second time.
C6_OneRoundTrip ==
    Len(wire) <= 1 /\ reads <= 1

\* C6, amended: get_location, Rtc::get_datetime and set_datetime_now make up to
\* three round trips and exactly three when they return Ok; every other
\* operation makes at most one and exactly one when it returns Ok; in every
\* round trip one frame is written and at most one read follows it.
C6_RoundTripsPerCall ==
    LET most == IF op \in ThreeRoundTrips THEN 3 ELSE 1
    IN  /\ Len(wire) <= most
        /\ reads <= Len(wire)
        /\ Len(wire) <= reads + 1
        /\ (pc = "done" /\ result.kind = "Ok") => (Len(wire) = most /\ reads = most)

\* get_location returned Ok after three frames and three reads
C6_Witness ==
    /\ pc = "done"
    /\ op = "get_location"
    /\ result.kind = "Ok"
    /\ Len(wire) = 3
    /\ reads = 3

\* C7: a call whose write, poll or read failed returns the error: it holds no
\* lock, writes nothing more and reads nothing more until it has returned, and
\* no call writes the same frame twice.
C7_NoRetry ==
    /\ []NoDuplicates(wire)
    /\ [][result.kind = "Err" =>
            /\ pc = "done"
            /\ ~lock
            /\ ~lock'
            /\ unread' = unread
            /\ \/ pc' = "done" /\ wire' = wire /\ reads' = reads /\ result' = result
               \/ pc' = "idle" /\ wire' = <<>> /\ reads' = 0]_vars

\* the write of the second round trip of a call failed
C7_Witness ==
    /\ pc = "done"
    /\ result = Err("Io")
    /\ step = 2
    /\ Len(wire) = 1
    /\ reads = 1

\* C8: frames are written in program order, one frame per write, and the reply
\* to a command is read before the next command is written.
C8_ReadBeforeNextWrite ==
    [][(pc = "write_all" /\ pc' = "bytes_to_read") =>
            /\ wire' = Append(wire, RoundTrip(op, arg, step).frame)
            /\ ~unread]_vars

\* C9: when the mount sends one reply per command and delivers every reply
\* whole, the channel holds no unread byte when the next command is written.
C9_DrainedBeforeWrite ==
    (pc = "write_all" /\ lock /\ ~split /\ faults = 0) => rx = <<>>

\* the payload length fixed for the reply to a direct query (for the cancel
\* query, the one status byte)
QueryPayload ==
    [get_position_ra_dec |-> 17, get_position_az_el |-> 17, get_tracking_mode |-> 1,
     get_time |-> 8, get_version |-> 2, get_model |-> 1, is_aligned |-> 1,
     goto_in_progress |-> 1, cancel_goto |-> 1]

\* C10: a direct hand-controller query whose reply has a payload of another
\* length than the one fixed for its opcode returns an error.
C10_LengthChecked ==
    (pc \in {"done", "aborted"} /\ op \in DOMAIN QueryPayload /\ rlen >= 1
        /\ rlen - 1 # QueryPayload[op]) => result.kind = "Err"


\* the modes of enum TrackingMode, by discriminant
TrackingModes == <<"Off", "AzEl", "EQNorth", "EQSouth">>

\* C11: get_tracking_mode returns Off, AzEl, EQNorth, EQSouth for the reply byte
\* 0, 1, 2, 3 and InvalidData for every other byte; no mode stands for an
\* unknown byte.
C11_TrackingModeDecode ==
    (pc \in {"done", "aborted"} /\ op = "get_tracking_mode" /\ reads = 1 /\ rlen >= 1
        /\ recv[rlen] = Hash) =>
            IF recv[1] \in 0..3
            THEN result = Ok(<<TrackingModes[recv[1] + 1]>>)
            ELSE result = Err("InvalidData")

\* the reply byte 255 is refused
C11_Witness ==
    /\ pc = "done"
    /\ op = "get_tracking_mode"
    /\ rlen = 2
    /\ recv[1] = 255
    /\ recv[2] = Hash
    /\ result = Err("InvalidData")

\* the identifier table of the mount models
ModelTable ==
    {<<1, "GPSSeries">>, <<3, "ISeries">>, <<4, "ISeriesSe">>, <<5, "Cge">>,
     <<6, "AdvancedGT">>, <<7, "Slt">>, <<9, "Cpc">>, <<10, "Gt">>,
     <<11, "FourFiveSE">>, <<12, "SixEightSE">>, <<14, "Cgem">>,
     <<20, "AdvancedVX">>, <<22, "Evolution">>}

\* C12: get_model returns, for a one-byte payload, the model of the table for
\* the 13 listed identifiers and InvalidData for every other byte; no two
\* identifiers give the same model.
C12_ModelDecode ==
    /\ (pc \in {"done", "aborted"} /\ op = "get_model" /\ reads = 1 /\ rlen = 2
            /\ recv[2] = Hash) =>
            IF \E e \in ModelTable : e[1] = recv[1]
            THEN <<recv[1], result.val[1]>> \in ModelTable /\ result.kind = "Ok"
            ELSE result = Err("InvalidData")
    /\ \A a, b \in Models : a # b => Model(a) # Model(b)
    /\ Cardinality(ModelTable) = 13
    /\ \A e, f \in ModelTable : (e[1] = f[1] \/ e[2] = f[2]) => e = f

\* the identifier 20 gives the Advanced VX
C12_Witness ==
    /\ pc = "done"
    /\ op = "get_model"
    /\ recv[1] = 20
    /\ result = Ok(<<"AdvancedVX">>)

\* C13: the two argument bytes of the frame slew_variable writes are
\* high = (rate * 4) div 256 and low = (rate * 4) mod 256, with
\* high * 256 + low = 4 * rate, for every rate with 4 * rate < 65536; 28 and 32
\* for the rate 1800.
C13_SlewRateBytes ==
    (op = "slew_variable" /\ Len(wire) >= 1 /\ 4 * arg[3] < 65536) =>
        LET high == wire[1][5]
            low == wire[1][6]
        IN  /\ high \in 0..255
            /\ low \in 0..255
            /\ high * 256 + low = 4 * arg[3]
            /\ arg[3] = 1800 => (high = 28 /\ low = 32)

\* the frame of a slew at 1800 arcseconds per second is on the line
C13_Witness ==
    /\ op = "slew_variable"
    /\ arg[3] = 1800
    /\ Len(wire) = 1
    /\ wire[1][5] = 28
    /\ wire[1][6] = 32

\* the sub-device addresses
Devices == {AzRaMotor, ElDecMotor, GpsUnit, RtcUnit}

\* the arguments each writing operation hands to write_passthrough in round
\* trip st
PassthroughArgs(o, a, st) ==
    CASE o = "slew_variable" -> <<((4 * a[3]) % 65536) \div 256, (4 * a[3]) % 256>>
      [] o = "slew_fixed" -> <<a[3]>>
      [] o = "stop_slew" -> <<0, 0>>
      [] o = "write_passthrough" -> SubSeq(a, 3, Len(a))
      [] o = "set_datetime_now" ->
            IF st = 1 THEN <<a[1], a[2]>>
            ELSE IF st = 2 THEN <<a[3] \div 256, a[3] % 256>>
            ELSE <<a[4], a[5], a[6]>>

\* C14: every passthrough frame written has 8 bytes. A write frame is
\* ['P', k + 1, device, command, a0, a1, a2, 0], the k arguments in order from
\* position 4 and the unused positions 0; a read frame is
\* ['P', 1, device, command, 0, 0, 0, L] with L the expected response length.
C14_PassthroughFrame ==
    \A i \in 1..Len(wire) :
        LET f == wire[i]
        IN  f[1] = PrefixP =>
                /\ Len(f) = 8
                /\ f[3] \in Devices
                /\ IF op \in PassthroughReads
                   THEN /\ f[2] = 1
                        /\ SubSeq(f, 5, 7) = <<0, 0, 0>>
                        /\ f[8] = ExpectedPayload(f)
                        /\ f[8] \in 1..3
                   ELSE LET args == PassthroughArgs(op, arg, i)
                            k == Len(args)
                        IN  /\ k \in 0..3
                            /\ f[2] = k + 1
                            /\ \A j \in 1..3 : f[4 + j] = IF j <= k THEN args[j] ELSE 0
                            /\ f[8] = 0

\* set_datetime_now has written its three frames of two, two and three arguments
C14_Witness ==
    /\ op = "set_datetime_now"
    /\ Len(wire) = 3
    /\ wire[1] = <<PrefixP, 3, RtcUnit, 131, 12, 31, 0, 0>>
    /\ wire[2] = <<PrefixP, 3, RtcUnit, 132, 7, 232, 0, 0>>
    /\ wire[3] = <<PrefixP, 4, RtcUnit, 179, 0, 0, 0, 0>>

\* the operations that send a coordinate pair, and their opcodes
CoordOps == [goto_ra_dec |-> OpcodeR, goto_az_el |-> OpcodeR, sync |-> OpcodeS]

IsUpperHex(b) == b \in (48..57) \cup (65..70)

\* the two fields of a coordinate frame: the bytes between the opcode and the
\* first comma, and the bytes after it
CommaAt(f) == CHOOSE i \in 1..Len(f) : f[i] = Comma /\ \A j \in 1..(i - 1) : f[j] # Comma

FirstField(f) == SubSeq(f, 2, CommaAt(f) - 1)

SecondField(f) == SubSeq(f, CommaAt(f) + 1, Len(f))

\* the eight uppercase hexadecimal digits of the 32-bit angle of d degrees
Hex8(d) ==
    LET digits == from_deg_to_i64(d).digits
    IN  [i \in 1..8 |-> IF i <= 8 - Len(digits) THEN 48
                        ELSE HexChar(digits[i - (8 - Len(digits))])]

\* C15: for a coordinate whose two angles lie in [0, 360) a goto or sync writes
\* exactly 18 bytes: the opcode, the first angle on eight uppercase hexadecimal
\* digits padded with zeros on the left, a comma, the second angle likewise.
C15_FixedWidthCoordinates ==
    (op \in DOMAIN CoordOps /\ Len(wire) >= 1 /\ arg[1] \in 0..359 /\ arg[2] \in 0..359) =>
        /\ Len(wire[1]) = 18
        /\ wire[1] = <<CoordOps[op]>> \o Hex8(arg[1]) \o <<Comma>> \o Hex8(arg[2])
        /\ \A i \in (2..9) \cup (11..18) : IsUpperHex(wire[1][i])

\* C16: for every degree input, negative and of 360 or more included, each angle
\* field of the frame holds a value in [0, 2^32): hexadecimal digits only, at
\* most eight of them.
C16_WrapsInto32Bits ==
    (op \in DOMAIN CoordOps /\ Len(wire) >= 1) =>
        \A field \in {FirstField(wire[1]), SecondField(wire[1])} :
            /\ Len(field) \in 1..8
            /\ \A i \in 1..Len(field) : IsUpperHex(field[i])

PositionOps == {"get_position_ra_dec", "get_position_az_el"}

\* two naturals given by their digits differ by at most c
Within(a, b, c) ==
    \E r \in 0..c : \/ StripZeros(AddSmall(a, r)) = StripZeros(b)
                    \/ StripZeros(AddSmall(b, r)) = StripZeros(a)

\* C17: for an angle d of [0, 360) the integer angle put on the line, converted
\* back to degrees, is within one unit 360 / 2^32 of d (360 units of 1 / 2^32
\* degree); and the angle in degrees decoded from an integer angle n of
\* [0, 2^32), converted to an integer angle again, differs from n by at most 1.
C17_AngleRoundTrip ==
    /\ (op \in DOMAIN CoordOps /\ Len(wire) >= 1) =>
            \A i \in 1..2 :
                arg[i] \in 0..359 =>
                    LET field == IF i = 1 THEN FirstField(wire[1]) ELSE SecondField(wire[1])
                        back == from_i64_to_deg(from_msg_to_i64(field))
                    IN  /\ ~back.neg
                        /\ Within(back.digits, WholeDegrees(arg[i]).digits, 360)
    /\ (op \in PositionOps /\ pc = "done" /\ result.kind = "Ok") =>
            \A i \in 1..2 :
                LET field == IF i = 1 THEN SubSeq(recv, 1, 8) ELSE SubSeq(recv, 10, 17)
                    n == from_msg_to_i64(field)
                IN  ~n.neg =>
                        /\ ~from_deg_to_i64_frac(result.val[i]).neg
                        /\ Within(from_deg_to_i64_frac(result.val[i]).digits, n.digits, 1)

\* a position whose first angle is 0x12AB34CD was decoded
C17_Witness ==
    /\ op = "get_position_ra_dec"
    /\ pc = "done"
    /\ result.kind = "Ok"
    /\ SubSeq(recv, 1, 8) = <<49, 50, 65, 66, 51, 52, 67, 68>>
    /\ result.val[1].digits # <<0>>

\* C18: a coordinate pair is decoded from bytes [0..8) and [9..17) of the
\* message; the byte at offset 8 is not examined: whichever byte stands there,
\* the result is the same.
C18_CommaNotExamined ==
    (op \in PositionOps /\ pc \in {"done", "aborted"} /\ reads = 1 /\ rlen >= 1
        /\ recv[rlen] = Hash) =>
            LET f1 == SubSeq(recv, 1, 8)
                f2 == SubSeq(recv, 10, 17)
            IN  /\ (HexFieldOk(f1) /\ HexFieldOk(f2)) =>
                        /\ result.kind = "Ok"
                        /\ result.val[1] = from_i64_to_deg(from_msg_to_i64(f1))
                        /\ result.val[2] = from_i64_to_deg(from_msg_to_i64(f2))
                /\ \A sep \in 0..255 : from_msg([recv EXCEPT ![9] = sep]) = result

\* a position was decoded from a reply whose byte at offset 8 is no comma
C18_Witness ==
    /\ op = "get_position_az_el"
    /\ pc = "done"
    /\ rlen = 18
    /\ recv[9] = 255
    /\ result.kind = "Ok"

\* C19: when an angle field of a position reply is no valid hexadecimal ASCII
\* the call returns an error value.
C19_MalformedAngleError ==
    (op \in PositionOps /\ pc \in {"done", "aborted"} /\ reads = 1 /\ rlen = 18
        /\ recv[rlen] = Hash
        /\ \E i \in (1..8) \cup (10..17) : ~IsHexDigit(recv[i])) =>
            (pc = "done" /\ result.kind = "Err")

\* the six fields of a time payload name a date and a time of day
TimeFieldsOk(p) ==
    /\ p[1] <= 23 /\ p[2] <= 59 /\ p[3] <= 59
    /\ ValidYMD(2000 + p[6], p[4], p[5])

\* C20: get_time returns an error unless the payload is exactly 8 bytes; for a
\* payload [h, m, s, mon, day, yy, off, dst] it returns the instant whose local
\* date-time is (2000 + yy)-mon-day h:m:s at the offset computed from off and
\* dst (an error when the fields name no date-time or no offset).
C20_TimeDecode ==
    (op = "get_time" /\ pc \in {"done", "aborted"} /\ reads = 1 /\ rlen >= 1
        /\ recv[rlen] = Hash) =>
            LET p == SubSeq(recv, 1, rlen - 1)
            IN  /\ pc = "done"
                /\ Len(p) # 8 => result.kind = "Err"
                /\ (Len(p) = 8 /\ result.kind = "Ok") =>
                        /\ SubSeq(result.val, 1, 6) =
                                <<2000 + p[6], p[4], p[5], p[1], p[2], p[3]>>
                        /\ result.val[7] = get_time_offset(p)
                /\ (Len(p) = 8 /\ TimeFieldsOk(p) /\ get_time_offset(p) \in -23..23) =>
                        result.kind = "Ok"

\* the model query of the call was answered by one payload byte and '#'
ModelAnswered ==
    reads = 1 /\ rlen = 2 /\ recv[2] = Hash

\* C21: get_gps returns the handle exactly when its model query succeeded and
\* reported the GPS Series (identifier 1); for every other model it returns
\* NotFound, and when the model query fails it returns that error; the caller
\* gets a handle only from a get_gps that made a successful model query.
C21_GpsGatedByModel ==
    /\ [](op = "get_gps" /\ pc = "done" =>
            /\ result.kind = "Ok" <=> (ModelAnswered /\ recv[1] = GPSSeries)
            /\ result = Err("NotFound") <=>
                    (ModelAnswered /\ recv[1] \in Models \ {GPSSeries})
            /\ (ModelAnswered /\ recv[1] \notin Models) => result = Err("InvalidData")
            /\ ~ModelAnswered => result.kind = "Err" /\ result.err # "NotFound")
    /\ [][(gps' /\ ~gps) =>
            /\ op = "get_gps"
            /\ result = Ok(<<>>)
            /\ wire = <<ReadHandcontrolFrame(OpcodeM)>>
            /\ ModelAnswered
            /\ recv[1] = GPSSeries]_vars

\* the caller holds the handle a get_gps call returned
C21_Witness ==
    /\ gps
    /\ pc = "idle"
    /\ calls = 1
    /\ recv[1] = GPSSeries

\* the frames of get_location: the link query, the latitude query, the
\* longitude query
LocationFrames ==
    <<ReadPassthroughFrame(GpsUnit, 55, 1), ReadPassthroughFrame(GpsUnit, 1, 3),
      ReadPassthroughFrame(GpsUnit, 2, 3)>>

\* the link query of the call was answered by one payload byte and '#'
LinkAnswered ==
    reads = 1 /\ rlen = 2 /\ recv[2] = Hash

\* C22: get_location writes the latitude and longitude queries only after the
\* link query it wrote first in the same call was answered linked; when the
\* answer is 0 the call returns an error and has written neither query; when
\* the link query fails the call returns an error and has written neither.
C22_LocationGatedByLink ==
    /\ [](op = "get_location" =>
            /\ Len(wire) <= 3
            /\ \A i \in 1..Len(wire) : wire[i] = LocationFrames[i]
            /\ (pc = "done" /\ step = 1) => (result.kind = "Err" /\ Len(wire) <= 1)
            /\ (pc = "done" /\ LinkAnswered /\ recv[1] = 0) =>
                    (step = 1 /\ result = Err("InvalidData"))
            /\ (pc = "done" /\ Len(wire) <= 1) => result.kind = "Err")
    /\ [][(op = "get_location" /\ Len(wire) = 1 /\ Len(wire') = 2) =>
            (LinkAnswered /\ recv[1] # 0)]_vars

\* the link query was answered 0 and the call returned the error
C22_Witness ==
    /\ op = "get_location"
    /\ pc = "done"
    /\ LinkAnswered
    /\ recv[1] = 0
    /\ result = Err("InvalidData")
    /\ wire = <<LocationFrames[1]>>

\* the three frames that set the clock to the readings a: date, year, time
SetDatetimeFrames(a) ==
    <<<<PrefixP, 3, RtcUnit, 131, a[1], a[2], 0, 0>>,
      <<PrefixP, 3, RtcUnit, 132, a[3] \div 256, a[3] % 256, 0, 0>>,
      <<PrefixP, 4, RtcUnit, 179, a[4], a[5], a[6], 0>>>>

\* C23: set_datetime_now writes the date (131), the year (132, big-endian) and
\* the time (179) in this order; when write k fails the call returns the
\* error with the frames up to k on the line and writes nothing after it;
\* the frames already written stay as they are and none is written again.
C23_SetDatetimeOrder ==
    /\ [](op = "set_datetime_now" =>
            /\ Len(wire) <= 3
            /\ wire = SubSeq(SetDatetimeFrames(arg), 1, Len(wire))
            /\ Len(wire) \in {step - 1, step}
            /\ reads \in {step - 1, step}
            /\ (pc = "done" /\ result.kind = "Ok") <=> (pc = "done" /\ reads = 3 /\ step = 3
                    /\ rlen >= 1 /\ recv[rlen] = Hash))
    /\ [][(op = "set_datetime_now" /\ op' = op) =>
            /\ SubSeq(wire', 1, Len(wire)) = wire
            /\ Len(wire') <= Len(wire) + 1
            /\ result.kind = "Err" => (wire' = wire /\ reads' = reads)]_vars

\* the year write failed after the date write was acknowledged
C23_Witness ==
    /\ op = "set_datetime_now"
    /\ pc = "done"
    /\ result.kind = "Err"
    /\ step = 2
    /\ reads = 2
    /\ wire = SubSeq(SetDatetimeFrames(arg), 1, 2)

\* C25: stop_slew(axis) writes the frame that slew_variable(axis, Positive, 0)
\* writes, ['P', 3, motor(axis), 6, 0, 0, 0, 0], to the motor of that axis,
\* and reads one acknowledgement; it writes no other frame.
C25_StopIsZeroRateSlew ==
    op = "stop_slew" =>
        /\ Len(wire) <= 1
        /\ reads <= Len(wire)
        /\ Len(wire) = 1 =>
                /\ wire[1] = <<PrefixP, 3, IF arg[1] = 0 THEN AzRaMotor ELSE ElDecMotor,
                               6, 0, 0, 0, 0>>
                /\ wire[1] = RoundTrip("slew_variable", <<arg[1], 0, 0>>, 1).frame
        /\ (pc = "done" /\ result.kind = "Ok") => (Len(wire) = 1 /\ reads = 1)

\* the stop of the declination / elevation axis was acknowledged
C25_Witness ==
    /\ op = "stop_slew"
    /\ arg = <<1>>
    /\ pc = "done"
    /\ result.kind = "Ok"
    /\ wire = <<<<PrefixP, 3, ElDecMotor, 6, 0, 0, 0, 0>>>>
    /\ reads = 1

\* the two bytes that stand for false and true in the reply to each flag query
FlagValues ==
    [is_aligned |-> {0, 1}, goto_in_progress |-> {48, 49}, is_linked |-> {0, 1}]

\* C26: a flag query answered by a byte that is neither of the two flag values
\* of that query returns an error.
C26_UnknownFlagRefused ==
    (op \in DOMAIN FlagValues /\ pc = "done" /\ reads = 1 /\ rlen = 2 /\ recv[2] = Hash
        /\ recv[1] \notin FlagValues[op]) => result.kind = "Err"

\* the fields month, day, year (two bytes), hour, minute, second name a date
\* and a time of day
RtcFieldsOk(f) ==
    /\ ValidYMD(f[3] * 256 + f[4], f[1], f[2])
    /\ f[5] <= 23 /\ f[6] <= 59 /\ f[7] <= 59

\* C27: Rtc::get_datetime returns an error value when the six fields it read
\* name no calendar date and time of day.
C27_InvalidDateIsError ==
    (op = "get_datetime" /\ pc \in {"done", "aborted"} /\ step = 3 /\ reads = 3
        /\ rlen = 4 /\ recv[4] = Hash /\ Len(saved) = 4
        /\ ~RtcFieldsOk(saved \o SubSeq(recv, 1, 3))) =>
            (pc = "done" /\ result.kind = "Err")

\* C24: goto_ra_dec, goto_az_el and sync write one command, 'r' or 's', and
\* read its acknowledgement; they write no goto-in-progress query and return
\* while the mount may still be moving; when the call has returned, the driver
\* is as a new driver is, but for the receive buffer.
C24_GotoDoesNotWait ==
    /\ [](op \in DOMAIN CoordOps =>
            /\ Len(wire) <= 1
            /\ reads <= Len(wire)
            /\ \A i \in 1..Len(wire) : wire[i][1] = CoordOps[op] /\ wire[i][1] # OpcodeL
            /\ (pc = "done" /\ result.kind = "Ok") => (Len(wire) = 1 /\ reads = 1))
    /\ [][(op \in DOMAIN CoordOps /\ pc = "done" /\ pc' = "idle") =>
            /\ ~lock'
            /\ op' = "none" /\ arg' = <<>> /\ step' = 0 /\ saved' = <<>>
            /\ rlen' = -1 /\ wire' = <<>> /\ reads' = 0
            /\ gps' = gps]_vars

\* a goto returned Ok while the mount is on its way
C24_Witness ==
    /\ op = "goto_ra_dec"
    /\ pc = "done"
    /\ result.kind = "Ok"
    /\ mount.moving
    /\ mount.pos # mount.target
    /\ Len(wire) = 1
    /\ reads = 1

\* a natural given by its digits is smaller than another
DigitsLess(a, b) ==
    LET x == StripZeros(a)
        y == StripZeros(b)
    IN  \/ Len(x) < Len(y)
        \/ /\ Len(x) = Len(y)
           /\ \E i \in 1..Len(x) : x[i] < y[i] /\ \A j \in 1..(i - 1) : x[j] = y[j]

\* h half degrees in units of 1 / 2^32 degree
HalfDegrees(h) == StripZeros(NatDigits(h * 8) \o Zeros(7))

\* the angle deg is less than t half degrees away from c whole degrees
NearDegrees(deg, c, t) ==
    /\ ~deg.neg \/ deg.digits = <<0>>
    /\ 2 * c - t < 0 \/ DigitsLess(HalfDegrees(2 * c - t), deg.digits)
    /\ DigitsLess(deg.digits, HalfDegrees(2 * c + t))

\* the goto of each position query and the tolerance of its test, in half degrees
GotoOf ==
    [get_position_ra_dec |-> [goto |-> "goto_ra_dec", tolerance |-> 1],
     get_position_az_el |-> [goto |-> "goto_az_el", tolerance |-> 2]]

\* C28: after a goto to c returned Ok and a later goto_in_progress returned
\* false, the position query of the same kind returns a coordinate within the
\* tolerance of c on each axis (0.5 degree for RA/Dec, 1 degree for Az/El).
C28_GotoReachesTarget ==
    (op \in PositionOps /\ pc = "done" /\ result.kind = "Ok" /\ hist.settled
        /\ hist.gotoOp = GotoOf[op].goto) =>
            \A i \in 1..2 : NearDegrees(result.val[i], hist.goto[i], GotoOf[op].tolerance)

\* seconds since midnight
SecondOfDay(h, m, sec) == h * 3600 + m * 60 + sec

\* the date-time <<year, month, day, hour, minute, second>> of a clock value
Datetime(rtc) == <<rtc[3] * 256 + rtc[4], rtc[1], rtc[2], rtc[5], rtc[6], rtc[7]>>

\* the clock values from rtc to n seconds later
Later(rtc, n) ==
    LET F[k \in 0..n] == IF k = 0 THEN rtc ELSE NextSecond(F[k - 1])
    IN  {F[k] : k \in 0..n}

\* C29: after set_datetime_now returned Ok, get_datetime reads back the date
\* and the time that were written, advanced by the seconds that passed at the
\* three reads, and the value read is not earlier than the instant at which the
\* set was issued.
C29_RtcRoundTrip ==
    (op = "get_datetime" /\ pc = "done" /\ result.kind = "Ok" /\ hist.set # <<>>) =>
        LET a == hist.set
            written == <<a[1], a[2], a[3] \div 256, a[3] % 256, a[4], a[5], a[6]>>
        IN  /\ result.val \in {Datetime(t) : t \in Later(written, 3)}
            /\ SecondOfDay(a[4], a[5], a[6]) >= SecondOfDay(a[7], a[8], a[9])

\* the ASCII code of the opcode of each direct operation: 'e', 'z', 'r', 'r',
\* 's', 't', 'T', 'h', 'V', 'm', 'J', 'L', 'Q'
DirectOpcode ==
    [get_position_ra_dec |-> 101, get_position_az_el |-> 122, goto_ra_dec |-> 114,
     goto_az_el |-> 114, sync |-> 115, get_tracking_mode |-> 116,
     set_tracking_mode |-> 84, get_time |-> 104, get_version |-> 86, get_model |-> 109,
     is_aligned |-> 74, goto_in_progress |-> 76, cancel_goto |-> 81]

\* C30: the first byte of the command a direct operation writes is its opcode;
\* a query writes that byte alone, set_tracking_mode writes 'T' and the mode
\* byte (0..3), goto and sync write the opcode and the coordinate payload.
C30_DirectOpcodes ==
    op \in DOMAIN DirectOpcode =>
        \A i \in 1..Len(wire) :
            /\ wire[i][1] = DirectOpcode[op]
            /\ CASE op = "set_tracking_mode" ->
                        wire[i] = <<84, arg[1]>> /\ arg[1] \in 0..3
                 [] op \in DOMAIN CoordOps ->
                        Len(wire[i]) >= 4 /\ \E j \in 2..Len(wire[i]) : wire[i][j] = Comma
                 [] OTHER -> wire[i] = <<DirectOpcode[op]>>

\* set_tracking_mode(EQSouth) wrote 'T' and the byte 3
C30_Witness ==
    /\ op = "set_tracking_mode"
    /\ pc = "done"
    /\ result.kind = "Ok"
    /\ wire = <<<<84, 3>>>>

\* the phases of a round trip in which the driver is about to use the port
PortPhases == {"write_all", "bytes_to_read", "read"}

\* C31: every write to the line, every bytes-available poll and every read is
\* made by write_port or read_port with the port mutex held: a frame is put on
\* the line, a byte is taken from the channel, a read is counted and a phase
\* of a round trip is left only in a step that holds the lock, and outside
\* these phases no step writes a frame or takes a byte.
C31_PortUnderMutex ==
    [][/\ (wire' # wire /\ wire' # <<>>) => (lock /\ pc = "write_all")
       /\ (Len(rx') < Len(rx)) => (lock /\ pc = "read")
       /\ (reads' # reads /\ reads' # 0) => (lock /\ pc = "read")
       /\ (pc \in PortPhases /\ (pc' # pc \/ step' # step)) => lock
       /\ (pc \notin PortPhases) =>
            /\ wire' \in {wire, <<>>}
            /\ Len(rx') >= Len(rx)
            /\ reads' \in {reads, 0}]_vars

\* read_port holds the lock and the reply to the frame it wrote is in the channel
C31_Witness ==
    /\ pc = "read"
    /\ lock
    /\ rx # <<>>
    /\ Len(wire) = 1
    /\ reads = 0

\* C32: write_passthrough called with more than 3 argument bytes returns an
\* InvalidInput error before any port access: no lock is taken, nothing is
\* written, nothing is read and the receive buffer is as it was.
C32_TooManyArgsRefused ==
    /\ (op = "write_passthrough" /\ Len(arg) > 5) =>
            /\ pc = "done"
            /\ result = Err("InvalidInput")
            /\ ~lock
            /\ wire = <<>>
            /\ pending = <<>>
            /\ reads = 0
            /\ rlen = -1
            /\ recv = Zeros(RecvLen)
    /\ (op = "write_passthrough" /\ result = Err("InvalidInput")) => Len(arg) > 5

\* write_passthrough was given 4 argument bytes and has returned
C32_Witness ==
    /\ op = "write_passthrough"
    /\ Len(arg) = 6
    /\ pc = "done"
    /\ result = Err("InvalidInput")

\* C33: the UTC offset get_time applies is the offset byte read as a signed
\* 8-bit number of hours, plus one hour exactly when the daylight-flag byte is 1;
\* with the flag 0 no hour is added.
C33_DaylightHourAdded ==
    (op = "get_time" /\ pc = "done" /\ result.kind = "Ok" /\ reads = 1 /\ rlen = 9) =>
        LET p == SubSeq(recv, 1, 8)
        IN  AsI8(p[7]) \in -22..22 =>
                result.val[7] = AsI8(p[7]) + (IF p[8] = 1 THEN 1 ELSE 0)

\* C34: cancel_goto writes the single byte 'Q' and returns Ok exactly when the
\* reply is the one payload byte 0 and the terminator; every other reply, the
\* bare terminator included, makes it return an error.
C34_CancelNeedsZeroByte ==
    op = "cancel_goto" =>
        /\ wire \in {<<>>, <<<<OpcodeQ>>>>}
        /\ pc \in {"done", "aborted"} =>
                (result.kind = "Ok" <=>
                    (reads = 1 /\ rlen = 2 /\ recv[1] = 0 /\ recv[2] = Hash))
        /\ (pc = "done" /\ reads = 1 /\ rlen = 1) => result = Err("InvalidData")

\* the mount acknowledged 'Q' with the bare terminator and the call returned an error
C34_Witness ==
    /\ op = "cancel_goto"
    /\ pc = "done"
    /\ wire = <<<<OpcodeQ>>>>
    /\ reads = 1
    /\ rlen = 1
    /\ recv[1] = Hash
    /\ result = Err("InvalidData")

\* contents an earlier call may have left in recv: nothing, or a position reply
\* of 17 payload bytes '0' and the terminator
PriorBuffers == {Zeros(RecvLen), Overlay(Zeros(RecvLen), Reply(18, 48, Hash))}

\* what the operation returns when its read leaves buf in recv
Decode(o, buf) ==
    IF o = "get_tracking_mode" THEN get_tracking_mode(buf) ELSE from_msg(buf)

\* C35: the value get_position_ra_dec, get_position_az_el and get_tracking_mode
\* return is a function of the bytes received in reply to the call: it is the
\* value the call returns for the same reply whatever an earlier reply left in
\* the receive buffer.
C35_ReplyDeterminesResult ==
    (op \in {"get_position_ra_dec", "get_position_az_el", "get_tracking_mode"}
        /\ pc \in {"done", "aborted"} /\ reads = 1 /\ rlen >= 1 /\ recv[rlen] = Hash) =>
            \A prior \in PriorBuffers :
                result = Decode(op, Overlay(prior, SubSeq(recv, 1, rlen)))

\* C36: the bytes a command reads are the mount's reply to that command: when a
\* read returns bytes the mount has answered the command written last (nothing
\* older is still owed), and the bytes read hold no terminator before their
\* last byte, that is, no reply or rest of a reply to an earlier command
\* precedes them.
C36_ReadsOwnReply ==
    [][(pc = "read" /\ reads' = reads + 1 /\ rlen' >= 1) =>
            /\ pending = <<>>
            /\ \A i \in 1..(rlen' - 1) : rx[i] # Hash]_vars

\* the date-time the three frames of set_datetime_now put together:
\* <<year, month, day, hour, minute, second>>
ComposedDatetime(w) ==
    <<w[2][5] * 256 + w[2][6], w[1][5], w[1][6], w[3][5], w[3][6], w[3][7]>>

\* C37: the date and the time set_datetime_now writes are taken from one
\* instant: the date-time its three frames put together is one the system
\* clock showed during the call.
C37_OneInstantWritten ==
    (op = "set_datetime_now" /\ Len(wire) = 3) =>
        ComposedDatetime(wire) \in {Instants[i] : i \in 1..Len(Instants)}

\* C38: get_datetime returns a date-time the RTC held during the call, also
\* when the RTC ticks between the reads of month and day, of the year and of
\* the time: when every reply it read was the answer to its own command, the
\* value returned is one the clock showed between the first and the last read.
C38_RtcValueWasHeld ==
    (op = "get_datetime" /\ pc = "done" /\ result.kind = "Ok"
        /\ pending = <<>> /\ rx = <<>> /\ mountOut = <<>>) =>
            result.val \in {Datetime(t) : t \in mount.seen}

\* C39: no step asks for the port mutex while the call holds it, and the mutex
\* is released on every way out of read_port and write_port, the early error
\* returns included: the lock is taken only when it is free, the step after it
\* is taken releases it, it is free whenever no round trip is running, and a
\* call that needs it can always take it.
C39_LockNeverKept ==
    /\ [](pc \notin PortPhases => ~lock)
    /\ [](pc \in PortPhases /\ ~lock => ENABLED Acquire)
    /\ [][/\ (lock' /\ ~lock) => pc \in PortPhases
          /\ (lock /\ driverVars' # driverVars) => ~lock']_vars

\* write_port returned the error of bytes_to_read() and the lock is free
C39_Witness ==
    /\ pc = "done"
    /\ result = Err("Io")
    /\ Len(wire) = 1
    /\ reads = 0
    /\ ~lock

\* C40: for every 16-bit rate slew_variable computes its two rate bytes
\* without overflow of the product rate * 4: no rate aborts the call, each byte
\* written is in 0..255 and the two bytes encode four times the rate asked for.
C40_EveryRateEncoded ==
    (op = "slew_variable" /\ arg[3] \in 0..65535) =>
        /\ pc # "aborted"
        /\ Len(wire) >= 1 =>
                /\ wire[1][5] \in 0..255
                /\ wire[1][6] \in 0..255
                /\ wire[1][5] * 256 + wire[1][6] = 4 * arg[3]

====
